---- MODULE Spec2Model ----
(***************************************************************************)
(* type_safe::deferred_construction<T>                                     *)
(* (include/type_safe/deferred_construction.hpp).                          *)
(*                                                                         *)
(* A program owns up to MaxCells cells.  Every member function of the      *)
(* class is one action; T is a test value type built from one integer      *)
(* argument whose constructors may throw.  `checked` is the build          *)
(* configuration: whether DEBUG_ASSERT is compiled in.                     *)
(***************************************************************************)
EXTENDS Integers, Sequences, FiniteSets

\* ---- bounds of the model
MaxCells == 2
MaxArg == 2
MaxCtor == 2
MaxThreads == 2

Cells == 1..MaxCells
Args == 1..MaxArg
Threads == 1..MaxThreads

VARIABLES
    life,          \* life[c]: "none" (not created), "constructing" (inside its
                   \*          copy or move constructor), "alive", "dead"
                   \*          (destroyed), "failed" (its constructor threw:
                   \*          never an object)
    initialized_,  \* bool initialized_
    storage_,      \* storage_t storage_: <<>> (no object) or <<v>> (a live T)
    ctorCalls,     \* completed constructions of a T in the cell's storage
    dtorCalls,     \* invocations of ~T on the cell's storage
    threw,         \* an emplace on the Empty cell ended in T's constructor
                   \* throwing, and the cell has not been Filled since
    checked,       \* the build compiles DEBUG_ASSERT in
    aborted,       \* the assertion handler has terminated the program
    last,          \* the last operation: what it was called with and returned
    pc,            \* pc[t]: the member function thread t is inside and the
                   \*        statement it is about to execute
    raced          \* raced[c]: a thread entered emplace on c while another
                   \*           thread was inside emplace on c

\* the variables of the statement-level specification
stepVars == <<pc, raced>>

vars == <<life, initialized_, storage_, ctorCalls, dtorCalls, threw,
          checked, aborted, last, pc, raced>>

\* ---- the value type T
\* T(args): the value constructed directly from the arguments
value_type(a) == [val |-> a * 10]

\* what a move constructor of T may leave in its source
MovedFromValue == [val |-> 0]

\* T's copy constructor: the copy equals the original
T_copy(v) == [val |-> v.val]

\* T's move constructor: the value the destination receives
T_move(v) == [val |-> v.val]

\* the states T's move constructor may leave the source in
MovedFromStates(v) == {v, MovedFromValue}

NoRet == <<>>

\* a thread that is inside no member function
Idle == [op |-> "", cell |-> 0, src |-> 0, arg |-> 0, at |-> "idle"]

\* ---- observers
\* bool has_value() const noexcept
has_value(c) == initialized_[c]

\* explicit operator bool() const noexcept
operator_bool(c) == has_value(c)

\* DEBUG_ASSERT(Expr, detail::assert_handler{}): the assertion fires
DEBUG_ASSERT_fails(expr) == checked /\ ~expr

\* the referent of *static_cast<value_type*>(as_void())
as_void(c) == storage_[c]

\* value(): return *static_cast<value_type*>(as_void());
value(c) == as_void(c)

\* ---- pieces of the member functions
\* a bug: emplace without its precondition check
EmplaceAssertFails_Missing(c) == FALSE

\* a bug: emplace tests its precondition in every build and terminates
EmplaceAssertFails_Always(c) == has_value(c)

\* emplace: DEBUG_ASSERT(!has_value(), ...)
EmplaceAssertFails(c) == DEBUG_ASSERT_fails(~has_value(c))

\* a bug: value() without its precondition check
ValueAssertFails_Missing(c) == FALSE

\* value(): DEBUG_ASSERT(has_value(), ...)
ValueAssertFails(c) == DEBUG_ASSERT_fails(has_value(c))

\* ::new (as_void()) value_type(...)
PlacementNew(c, v) == [storage_ EXCEPT ![c] = <<v>>]

\* a bug: emplace forgets `initialized_ = true;`
EmplaceSetFlag_Forgotten(c) == initialized_

\* emplace: initialized_ = true;
EmplaceSetFlag(c) == [initialized_ EXCEPT ![c] = TRUE]

\* a bug: emplace sets the flag before it constructs, as the copy constructor does
EmplaceFlagsOnThrow_FlagFirst(c) == [initialized_ EXCEPT ![c] = TRUE]

\* emplace: the constructor threw, so `initialized_ = true;` is not reached
EmplaceFlagsOnThrow(c) == initialized_

\* a bug: the default constructor starts from initialized_(true)
DefaultCtorFlags_Initialized(d) == [initialized_ EXCEPT ![d] = TRUE]

\* default constructor: initialized_(false)
DefaultCtorFlags(d) == [initialized_ EXCEPT ![d] = FALSE]

\* a bug: the copy constructor starts from initialized_(false), as the default one
CopyCtorFlags_AlwaysEmpty(d, other) == [initialized_ EXCEPT ![d] = FALSE]

\* copy constructor: initialized_(other.initialized_)
CopyCtorFlags(d, other) == [initialized_ EXCEPT ![d] = initialized_[other]]

\* a bug: the move constructor empties its source, as a conventional move would
MoveCtorFlags_ResetSource(d, other) ==
    [initialized_ EXCEPT ![d] = initialized_[other], ![other] = FALSE]

\* move constructor: initialized_(other.initialized_); other's flag is not touched
MoveCtorFlags(d, other) == [initialized_ EXCEPT ![d] = initialized_[other]]

\* a bug: the destructor never destroys the value
DestructorCalls_Never(c) == 0

\* a bug: the destructor destroys the value without testing initialized_
DestructorCalls_Always(c) == 1

\* destructor: if (initialized_) value().~value_type();  the number of ~T calls
DestructorCalls(c) == IF initialized_[c] THEN 1 ELSE 0

\* a constructor of the class creates the next object
IsFresh(d) == life[d] = "none" /\ \A e \in Cells : e < d => life[e] # "none"

\* retry: the call was made on a cell on which an earlier emplace had thrown
Op(op, c, src, outcome, pre, before, arg, mode, ret, flag) ==
    [op |-> op, cell |-> c, src |-> src, outcome |-> outcome, pre |-> pre,
     before |-> before, arg |-> arg, mode |-> mode, ret |-> ret, flag |-> flag,
     retry |-> IF c \in Cells THEN threw[c] ELSE FALSE]

Init ==
    /\ life = [c \in Cells |-> "none"]
    /\ initialized_ = [c \in Cells |-> FALSE]
    /\ storage_ = [c \in Cells |-> <<>>]
    /\ ctorCalls = [c \in Cells |-> 0]
    /\ dtorCalls = [c \in Cells |-> 0]
    /\ threw = [c \in Cells |-> FALSE]
    /\ checked \in BOOLEAN
    /\ aborted = FALSE
    /\ last = Op("init", 0, 0, "ok", FALSE, NoRet, 0, "", NoRet, FALSE)
    /\ pc = [t \in Threads |-> Idle]
    /\ raced = [c \in Cells |-> FALSE]

\* deferred_construction() noexcept : initialized_(false): what it does to the
\* object
DefaultCtor(d) ==
    /\ ~aborted
    /\ UNCHANGED stepVars
    /\ IsFresh(d)
    /\ life' = [life EXCEPT ![d] = "alive"]
    /\ initialized_' = DefaultCtorFlags(d)
    /\ UNCHANGED <<storage_, ctorCalls, dtorCalls, threw, checked, aborted>>

\* deferred_construction() noexcept : initialized_(false)
DefaultConstruct(d) ==
    /\ DefaultCtor(d)
    /\ last' = Op("default", d, 0, "ok", FALSE, NoRet, 0, "", NoRet, FALSE)

\* a bug: the copy constructor catches what T's copy constructor throws, so the
\* object comes into existence with its flag set over unconstructed storage
CopyConstruct_SwallowsThrow(d, other, fail) ==
    /\ ~aborted
    /\ UNCHANGED stepVars
    /\ IsFresh(d)
    /\ life[other] = "alive"
    /\ initialized_' = CopyCtorFlags(d, other)
    /\ last' = Op("copy", d, other, IF fail THEN "throw" ELSE "ok",
                  has_value(other), storage_[other], 0, "", NoRet, FALSE)
    /\ life' = [life EXCEPT ![d] = "alive"]
    /\ IF initialized_'[d] /\ ~fail
       THEN /\ storage_' = PlacementNew(d, T_copy(value(other)[1]))
            /\ ctorCalls' = [ctorCalls EXCEPT ![d] = @ + 1]
       ELSE /\ fail => initialized_'[d]
            /\ UNCHANGED <<storage_, ctorCalls>>
    /\ UNCHANGED <<dtorCalls, threw, checked, aborted>>

\* deferred_construction(const deferred_construction& other)
\* fail: T's copy constructor throws.  The flag is set by the member
\* initializer before the body runs; when the body throws, the object never
\* comes into existence and its destructor is never run.
CopyConstruct(d, other, fail) ==
    /\ ~aborted
    /\ UNCHANGED stepVars
    /\ IsFresh(d)
    /\ life[other] = "alive"
    /\ initialized_' = CopyCtorFlags(d, other)
    /\ last' = Op("copy", d, other, IF fail THEN "throw" ELSE "ok",
                  has_value(other), storage_[other], 0, "", NoRet, FALSE)
    /\ IF initialized_'[d]
       THEN IF fail
            THEN /\ life' = [life EXCEPT ![d] = "failed"]
                 /\ UNCHANGED <<storage_, ctorCalls>>
            ELSE /\ storage_' = PlacementNew(d, T_copy(value(other)[1]))
                 /\ ctorCalls' = [ctorCalls EXCEPT ![d] = @ + 1]
                 /\ life' = [life EXCEPT ![d] = "alive"]
       ELSE /\ ~fail
            /\ life' = [life EXCEPT ![d] = "alive"]
            /\ UNCHANGED <<storage_, ctorCalls>>
    /\ UNCHANGED <<dtorCalls, threw, checked, aborted>>

\* deferred_construction(deferred_construction&& other)
\* fail: T's move constructor throws; left: what it leaves in other's value.
MoveConstruct(d, other, fail, left) ==
    /\ ~aborted
    /\ UNCHANGED stepVars
    /\ IsFresh(d)
    /\ life[other] = "alive"
    /\ initialized_' = MoveCtorFlags(d, other)
    /\ last' = Op("move", d, other, IF fail THEN "throw" ELSE "ok",
                  has_value(other), storage_[other], 0, "", NoRet, FALSE)
    /\ IF initialized_'[d]
       THEN /\ left \in MovedFromStates(value(other)[1])
            /\ IF fail
               THEN /\ life' = [life EXCEPT ![d] = "failed"]
                    /\ storage_' = [storage_ EXCEPT ![other] = <<left>>]
                    /\ UNCHANGED ctorCalls
               ELSE /\ storage_' = [PlacementNew(d, T_move(value(other)[1]))
                                        EXCEPT ![other] = <<left>>]
                    /\ ctorCalls' = [ctorCalls EXCEPT ![d] = @ + 1]
                    /\ life' = [life EXCEPT ![d] = "alive"]
       ELSE /\ ~fail
            /\ left = MovedFromValue
            /\ life' = [life EXCEPT ![d] = "alive"]
            /\ UNCHANGED <<storage_, ctorCalls>>
    /\ UNCHANGED <<dtorCalls, threw, checked, aborted>>

\* ~deferred_construction() noexcept: what it does to the object
Destructor(c) ==
    /\ ~aborted
    /\ UNCHANGED stepVars
    /\ life[c] = "alive"
    /\ dtorCalls' = [dtorCalls EXCEPT ![c] = @ + DestructorCalls(c)]
    /\ storage_' = IF DestructorCalls(c) > 0
                   THEN [storage_ EXCEPT ![c] = <<>>]
                   ELSE storage_
    /\ life' = [life EXCEPT ![c] = "dead"]
    /\ UNCHANGED <<initialized_, ctorCalls, threw, checked, aborted>>

\* ~deferred_construction() noexcept
Destroy(c) ==
    /\ Destructor(c)
    /\ last' = Op("destroy", c, 0, "ok", has_value(c), storage_[c], 0, "",
                  NoRet, FALSE)

\* template <typename... Args> void emplace(Args&&... args)
\* fail: the chosen constructor of T throws.  wrote: with the assertion compiled
\* out and the cell Filled, the constructor that threw had already stored its
\* member over the previous value.
emplace(op, c, a, fail, wrote) ==
    /\ ~aborted
    /\ UNCHANGED stepVars
    /\ life[c] = "alive"
    /\ IF EmplaceAssertFails(c)
       THEN /\ ~fail /\ ~wrote
            /\ aborted' = TRUE
            /\ last' = Op(op, c, 0, "assert", has_value(c), storage_[c], a, "",
                          NoRet, FALSE)
            /\ UNCHANGED <<initialized_, storage_, ctorCalls, threw>>
       ELSE IF fail
       THEN /\ wrote => has_value(c)
            /\ threw' = [threw EXCEPT ![c] = ~has_value(c)]
            /\ storage_' = IF wrote
                           THEN PlacementNew(c, value_type(a))
                           ELSE storage_
            /\ initialized_' = EmplaceFlagsOnThrow(c)
            /\ last' = Op(op, c, 0, "throw", has_value(c), NoRet, a, "",
                          NoRet, FALSE)
            /\ UNCHANGED <<ctorCalls, aborted>>
       ELSE /\ ~wrote
            /\ ctorCalls[c] < MaxCtor
            /\ storage_' = PlacementNew(c, value_type(a))
            /\ initialized_' = EmplaceSetFlag(c)
            /\ ctorCalls' = [ctorCalls EXCEPT ![c] = @ + 1]
            /\ threw' = [threw EXCEPT ![c] = FALSE]
            /\ last' = Op(op, c, 0, "ok", has_value(c), NoRet, a, "",
                          NoRet, FALSE)
            /\ UNCHANGED aborted
    /\ UNCHANGED <<life, dtorCalls, checked>>

Emplace(c, a, fail, wrote) == emplace("emplace", c, a, fail, wrote)

\* a bug: operator= as a real assignment, which constructs whatever the state
Assign_NoPrecondition(c, u, fail, wrote) ==
    /\ ~aborted
    /\ UNCHANGED stepVars
    /\ life[c] = "alive"
    /\ ~fail /\ ~wrote
    /\ ctorCalls[c] < MaxCtor
    /\ storage_' = PlacementNew(c, value_type(u))
    /\ initialized_' = EmplaceSetFlag(c)
    /\ ctorCalls' = [ctorCalls EXCEPT ![c] = @ + 1]
    /\ threw' = [threw EXCEPT ![c] = FALSE]
    /\ last' = Op("assign", c, 0, "ok", has_value(c), NoRet, u, "", NoRet, FALSE)
    /\ UNCHANGED <<life, dtorCalls, checked, aborted>>

\* template <typename U> auto operator=(U&& u): emplace(std::forward<U>(u))
Assign(c, u, fail, wrote) == emplace("assign", c, u, fail, wrote)

AccessModes == {"&", "const&", "&&", "const&&"}

\* a bug: the consuming accessors leave the cell Empty, as a moved-from optional
Value_ConsumingEmpties(c, mode) ==
    /\ ~aborted
    /\ UNCHANGED stepVars
    /\ life[c] = "alive"
    /\ ~ValueAssertFails(c)
    /\ last' = Op("value", c, 0, "ok", has_value(c), NoRet, 0, mode, value(c),
                  FALSE)
    /\ initialized_' = IF mode \in {"&&", "const&&"}
                       THEN [initialized_ EXCEPT ![c] = FALSE]
                       ELSE initialized_
    /\ UNCHANGED <<life, storage_, ctorCalls, dtorCalls, threw, checked, aborted>>

\* value_type& value() & / const& / && / const&&
Value(c, mode) ==
    /\ ~aborted
    /\ UNCHANGED stepVars
    /\ life[c] = "alive"
    /\ IF ValueAssertFails(c)
       THEN /\ aborted' = TRUE
            /\ last' = Op("value", c, 0, "assert", has_value(c), NoRet, 0,
                          mode, NoRet, FALSE)
       ELSE /\ last' = Op("value", c, 0, "ok", has_value(c), NoRet, 0,
                          mode, value(c), FALSE)
            /\ UNCHANGED aborted
    /\ UNCHANGED <<life, initialized_, storage_, ctorCalls, dtorCalls, threw,
                   checked>>

\* bool has_value() const noexcept
HasValue(c) ==
    /\ ~aborted
    /\ UNCHANGED stepVars
    /\ life[c] = "alive"
    /\ last' = Op("has_value", c, 0, "ok", has_value(c), NoRet, 0, "",
                  NoRet, has_value(c))
    /\ UNCHANGED <<life, initialized_, storage_, ctorCalls, dtorCalls, threw,
                   checked, aborted>>

\* explicit operator bool() const noexcept
OperatorBool(c) ==
    /\ ~aborted
    /\ UNCHANGED stepVars
    /\ life[c] = "alive"
    /\ last' = Op("bool", c, 0, "ok", has_value(c), NoRet, 0, "",
                  NoRet, operator_bool(c))
    /\ UNCHANGED <<life, initialized_, storage_, ctorCalls, dtorCalls, threw,
                   checked, aborted>>

Next ==
    \/ \E d \in Cells : DefaultConstruct(d)
    \/ \E d \in Cells, other \in Cells, fail \in BOOLEAN :
           CopyConstruct(d, other, fail)
    \/ \E d \in Cells, other \in Cells, fail \in BOOLEAN,
          left \in {value_type(a) : a \in Args} \cup {MovedFromValue} :
           MoveConstruct(d, other, fail, left)
    \/ \E c \in Cells, a \in Args, fail \in BOOLEAN, wrote \in BOOLEAN :
           Emplace(c, a, fail, wrote)
    \/ \E c \in Cells, u \in Args, fail \in BOOLEAN, wrote \in BOOLEAN :
           Assign(c, u, fail, wrote)
    \/ \E c \in Cells, mode \in AccessModes : Value(c, mode)
    \/ \E c \in Cells : HasValue(c)
    \/ \E c \in Cells : OperatorBool(c)
    \/ \E c \in Cells : Destroy(c)

Spec == Init /\ [][Next]_vars

\* ------------------------------------------ the member functions, statement
\* by statement, called by up to MaxThreads threads with no synchronisation

\* no thread is inside a member function of c or is reading c as a source
AtRest(c) == \A t \in Threads : pc[t].cell # c /\ pc[t].src # c

\* threads are interchangeable: the next call is made by the first idle one
NextCaller(t) == pc[t] = Idle /\ \A u \in Threads : u < t => pc[u] # Idle

\* emplace, line 108: DEBUG_ASSERT(!has_value(), ...)
\* The statements of emplace do not depend on the arguments: every call
\* passes MaxArg.
EmplaceCheck(t, c) ==
    /\ ~aborted
    /\ NextCaller(t)
    /\ life[c] = "alive"
    /\ IF EmplaceAssertFails(c)
       THEN /\ aborted' = TRUE
            /\ UNCHANGED stepVars
       ELSE /\ pc' = [pc EXCEPT ![t] = [op |-> "emplace", cell |-> c, src |-> 0,
                                       arg |-> MaxArg, at |-> "new"]]
            /\ raced' = [raced EXCEPT ![c] =
                            @ \/ \E u \in Threads \ {t} :
                                     pc[u].op = "emplace" /\ pc[u].cell = c]
            /\ UNCHANGED aborted
    /\ UNCHANGED <<life, initialized_, storage_, ctorCalls, dtorCalls, threw,
                   checked, last>>

\* emplace, line 109: ::new (as_void()) value_type(std::forward<Args>(args)...)
\* fail: the constructor throws and emplace is left by the exception
EmplaceNew(t, fail) ==
    /\ ~aborted
    /\ pc[t].op = "emplace"
    /\ pc[t].at = "new"
    /\ IF fail
       THEN /\ initialized_' = EmplaceFlagsOnThrow(pc[t].cell)
            /\ pc' = [pc EXCEPT ![t] = Idle]
            /\ UNCHANGED <<storage_, ctorCalls>>
       ELSE /\ ctorCalls[pc[t].cell] < MaxCtor
            /\ storage_' = PlacementNew(pc[t].cell, value_type(pc[t].arg))
            /\ ctorCalls' = [ctorCalls EXCEPT ![pc[t].cell] = @ + 1]
            /\ pc' = [pc EXCEPT ![t].at = "flag"]
            /\ UNCHANGED initialized_
    /\ UNCHANGED <<life, dtorCalls, threw, checked, aborted, last, raced>>

\* emplace, line 110: initialized_ = true;
EmplaceFlag(t) ==
    /\ ~aborted
    /\ pc[t].op = "emplace"
    /\ pc[t].at = "flag"
    /\ initialized_' = EmplaceSetFlag(pc[t].cell)
    /\ pc' = [pc EXCEPT ![t] = Idle]
    /\ UNCHANGED <<life, storage_, ctorCalls, dtorCalls, threw, checked,
                   aborted, last, raced>>

\* copy constructor, line 48: the member initializer
\* initialized_(other.initialized_); no thread is modifying the source
CopyInitializer(t, d, other) ==
    /\ ~aborted
    /\ NextCaller(t)
    /\ IsFresh(d)
    /\ life[other] = "alive"
    /\ AtRest(other)
    /\ life' = [life EXCEPT ![d] = "constructing"]
    /\ initialized_' = CopyCtorFlags(d, other)
    /\ pc' = [pc EXCEPT ![t] = [op |-> "copy", cell |-> d, src |-> other,
                                arg |-> 0, at |-> "body"]]
    /\ UNCHANGED <<storage_, ctorCalls, dtorCalls, threw, checked, aborted,
                   last, raced>>

\* copy constructor, lines 50-51:
\* if (initialized_) ::new (as_void()) value_type(other.value());
CopyBody(t, fail) ==
    /\ ~aborted
    /\ pc[t].op = "copy"
    /\ pc[t].at = "body"
    /\ IF initialized_[pc[t].cell]
       THEN IF fail
            THEN /\ life' = [life EXCEPT ![pc[t].cell] = "failed"]
                 /\ UNCHANGED <<storage_, ctorCalls>>
            ELSE /\ storage_' = PlacementNew(pc[t].cell,
                                             T_copy(value(pc[t].src)[1]))
                 /\ ctorCalls' = [ctorCalls EXCEPT ![pc[t].cell] = @ + 1]
                 /\ life' = [life EXCEPT ![pc[t].cell] = "alive"]
       ELSE /\ ~fail
            /\ life' = [life EXCEPT ![pc[t].cell] = "alive"]
            /\ UNCHANGED <<storage_, ctorCalls>>
    /\ pc' = [pc EXCEPT ![t] = Idle]
    /\ UNCHANGED <<initialized_, dtorCalls, threw, checked, aborted, last,
                   raced>>

\* move constructor, line 62: the member initializer
\* initialized_(other.initialized_); no thread is using the source
MoveInitializer(t, d, other) ==
    /\ ~aborted
    /\ NextCaller(t)
    /\ IsFresh(d)
    /\ life[other] = "alive"
    /\ AtRest(other)
    /\ life' = [life EXCEPT ![d] = "constructing"]
    /\ initialized_' = MoveCtorFlags(d, other)
    /\ pc' = [pc EXCEPT ![t] = [op |-> "move", cell |-> d, src |-> other,
                                arg |-> 0, at |-> "body"]]
    /\ UNCHANGED <<storage_, ctorCalls, dtorCalls, threw, checked, aborted,
                   last, raced>>

\* move constructor, lines 64-65:
\* if (initialized_) ::new (as_void()) value_type(std::move(other).value());
MoveBody(t, fail, left) ==
    /\ ~aborted
    /\ pc[t].op = "move"
    /\ pc[t].at = "body"
    /\ IF initialized_[pc[t].cell]
       THEN /\ left \in MovedFromStates(value(pc[t].src)[1])
            /\ IF fail
               THEN /\ life' = [life EXCEPT ![pc[t].cell] = "failed"]
                    /\ storage_' = [storage_ EXCEPT ![pc[t].src] = <<left>>]
                    /\ UNCHANGED ctorCalls
               ELSE /\ storage_' = [PlacementNew(pc[t].cell,
                                                 T_move(value(pc[t].src)[1]))
                                        EXCEPT ![pc[t].src] = <<left>>]
                    /\ ctorCalls' = [ctorCalls EXCEPT ![pc[t].cell] = @ + 1]
                    /\ life' = [life EXCEPT ![pc[t].cell] = "alive"]
       ELSE /\ ~fail
            /\ left = MovedFromValue
            /\ life' = [life EXCEPT ![pc[t].cell] = "alive"]
            /\ UNCHANGED <<storage_, ctorCalls>>
    /\ pc' = [pc EXCEPT ![t] = Idle]
    /\ UNCHANGED <<initialized_, dtorCalls, threw, checked, aborted, last,
                   raced>>

\* the default constructor has one statement
DefaultConstructStep(d) == DefaultCtor(d) /\ UNCHANGED last

\* the destructor runs when no thread uses the object any more
DestroyAtRest(c) == AtRest(c) /\ Destructor(c) /\ UNCHANGED last

NextSteps ==
    \/ \E d \in Cells : DefaultConstructStep(d)
    \/ \E t \in Threads, c \in Cells : EmplaceCheck(t, c)
    \/ \E t \in Threads, fail \in BOOLEAN : EmplaceNew(t, fail)
    \/ \E t \in Threads : EmplaceFlag(t)
    \/ \E t \in Threads, d \in Cells, other \in Cells :
           CopyInitializer(t, d, other)
    \/ \E t \in Threads, fail \in BOOLEAN : CopyBody(t, fail)
    \/ \E t \in Threads, d \in Cells, other \in Cells :
           MoveInitializer(t, d, other)
    \/ \E t \in Threads, fail \in BOOLEAN,
          left \in {value_type(a) : a \in Args} \cup {MovedFromValue} :
           MoveBody(t, fail, left)
    \/ \E c \in Cells : DestroyAtRest(c)

SpecSteps == Init /\ [][NextSteps]_vars

\* ---------------------------------------------------------------- claims

\* C1: once has_value() is true for a cell it is true in every later state of
\* that cell until the cell is destroyed: no step of any operation takes a
\* living cell from Filled back to Empty.
C1_FilledStaysFilled ==
    [][\A c \in Cells :
          (life[c] = "alive" /\ has_value(c) /\ life'[c] = "alive")
              => initialized_'[c]]_vars

\* has_value() returned true on a cell that had been the source of a move
C1_Witness ==
    /\ last.op = "has_value"
    /\ last.flag
    /\ value(last.cell) = <<MovedFromValue>>
    /\ ctorCalls[last.cell] = 1

\* C2: after emplace(args) on an Empty cell whose constructor did not fail,
\* has_value() is true and value() yields T(args).
C2_EmplaceFills ==
    (last.op = "emplace" /\ last.outcome = "ok" /\ ~last.pre)
        => /\ has_value(last.cell)
           /\ value(last.cell) = <<value_type(last.arg)>>
           /\ life[last.cell] = "alive"

C2_Witness ==
    /\ last.op = "emplace"
    /\ last.outcome = "ok"
    /\ ~last.pre
    /\ last.arg = MaxArg

\* C3: in a checked build, emplace on a Filled cell takes the assertion path
\* (the handler terminates the program) and the stored value is the one that
\* was there before the call.
C3_NoRefillChecked ==
    (checked /\ last.op = "emplace" /\ last.pre)
        => /\ last.outcome = "assert"
           /\ aborted
           /\ has_value(last.cell)
           /\ value(last.cell) = last.before
           /\ ctorCalls[last.cell] = 1

\* a second emplace on a cell an emplace had filled
C3_Witness ==
    /\ checked
    /\ last.op = "emplace"
    /\ last.pre
    /\ last.outcome = "assert"
    /\ value(last.cell) # <<value_type(last.arg)>>

\* C4: when T's constructor fails during emplace on an Empty cell the failure
\* propagates, the cell is still Empty, holds no T, and no destructor of T has
\* run for it; a cell destroyed without any construction having completed in it
\* has had no destructor of T run either.
C4_EmplaceFailureAtomic ==
    /\ (last.op = "emplace" /\ last.outcome = "throw" /\ ~last.pre)
           => /\ ~has_value(last.cell)
              /\ life[last.cell] = "alive"
              /\ storage_[last.cell] = <<>>
              /\ dtorCalls[last.cell] = 0
    /\ \A c \in Cells :
           (life[c] = "dead" /\ threw[c] /\ ctorCalls[c] = 0)
               => dtorCalls[c] = 0

\* a cell whose only emplace failed has been destroyed
C4_Witness ==
    \E c \in Cells : life[c] = "dead" /\ threw[c] /\ ctorCalls[c] = 0

\* ---- counting T's constructions and destructions over all cells
RECURSIVE SumOver(_, _)
SumOver(f, S) ==
    IF S = {} THEN 0
    ELSE LET c == CHOOSE x \in S : TRUE IN f[c] + SumOver(f, S \ {c})

TotalConstructions == SumOver(ctorCalls, Cells)
TotalDestructions == SumOver(dtorCalls, Cells)

\* constructions completed by emplace or value-assignment in a cell that was
\* already Filled
Refills == SumOver([c \in Cells |-> IF ctorCalls[c] > 1 THEN ctorCalls[c] - 1 ELSE 0],
                   Cells)

\* some cell has been destroyed and no cell is left alive
AllDestroyed ==
    /\ \E c \in Cells : life[c] = "dead"
    /\ \A c \in Cells : life[c] # "alive"

\* C5 as stated: for any sequence of operations, once every cell has been
\* destroyed the completed constructions of T equal the destructor invocations.
C5_Original == AllDestroyed => TotalConstructions = TotalDestructions

\* C5 amended: once every cell has been destroyed, the completed constructions
\* exceed the destructor invocations by exactly the number of constructions
\* that emplace or value-assignment completed over an already Filled cell; a
\* checked build has none of those, and without them the two counts are equal.
C5_ConstructionsBalance ==
    AllDestroyed
        => /\ TotalConstructions = TotalDestructions + Refills
           /\ checked => Refills = 0

\* every cell destroyed after both held a value, none refilled
C5_Witness ==
    /\ AllDestroyed
    /\ Refills = 0
    /\ TotalConstructions = MaxCells
    /\ TotalDestructions = MaxCells

\* C6: destroying a Filled cell invokes ~T on its storage exactly once and
\* destroying an Empty cell invokes it zero times; no ~T runs for a cell that
\* has not been destroyed.
C6_DestructionSafety ==
    /\ last.op = "destroy"
           => /\ life[last.cell] = "dead"
              /\ dtorCalls[last.cell] = IF last.pre THEN 1 ELSE 0
    /\ \A c \in Cells :
           /\ life[c] # "dead" => dtorCalls[c] = 0
           /\ life[c] = "dead" => dtorCalls[c] = IF initialized_[c] THEN 1 ELSE 0

\* a Filled cell that had been the source of a move has just been destroyed
C6_Witness ==
    /\ last.op = "destroy"
    /\ last.pre
    /\ last.before = <<MovedFromValue>>
    /\ dtorCalls[last.cell] = 1

\* C7 as stated: value() on an Empty cell takes the assertion path.
C7_Original ==
    (last.op = "value" /\ ~last.pre)
        => last.outcome = "assert" /\ aborted

\* C7 amended: in a checked build value() on an Empty cell takes the assertion
\* path and returns nothing; with the assertion compiled out it returns a
\* reference to the storage, which holds no constructed T.
C7_EmptyAccess ==
    (last.op = "value" /\ ~last.pre)
        => IF checked
           THEN last.outcome = "assert" /\ aborted /\ last.ret = NoRet
           ELSE last.outcome = "ok" /\ ~aborted /\ last.ret = <<>>
                /\ storage_[last.cell] = <<>>

\* the consuming accessor was called on an Empty cell in a checked build
C7_Witness ==
    /\ checked
    /\ last.op = "value"
    /\ last.mode = "&&"
    /\ ~last.pre
    /\ aborted

\* C8: a successful copy construction from an Empty cell gives an Empty cell
\* and constructs no T; from a Filled cell it gives a Filled cell whose value
\* equals the source's, by one construction; the source is unchanged.
C8_CopyFidelity ==
    (last.op = "copy" /\ last.outcome = "ok")
        => /\ life[last.cell] = "alive"
           /\ life[last.src] = "alive"
           /\ has_value(last.src) = last.pre
           /\ storage_[last.src] = last.before
           /\ IF last.pre
              THEN /\ has_value(last.cell)
                   /\ value(last.cell) = value(last.src)
                   /\ ctorCalls[last.cell] = 1
              ELSE /\ ~has_value(last.cell)
                   /\ storage_[last.cell] = <<>>
                   /\ ctorCalls[last.cell] = 0

C8_Witness ==
    /\ last.op = "copy"
    /\ last.outcome = "ok"
    /\ last.pre
    /\ value(last.cell) = <<value_type(MaxArg)>>

\* C9: a successful move construction from a Filled cell gives a Filled
\* destination holding the value the source held, and the source still has
\* has_value() true, holding a moved-from value; from an Empty cell both the
\* destination and the source are Empty.
C9_MoveFidelity ==
    (last.op = "move" /\ last.outcome = "ok")
        => /\ life[last.cell] = "alive"
           /\ life[last.src] = "alive"
           /\ has_value(last.src) = last.pre
           /\ IF last.pre
              THEN /\ has_value(last.cell)
                   /\ value(last.cell) = last.before
                   /\ ctorCalls[last.cell] = 1
                   /\ Len(value(last.src)) = 1
                   /\ value(last.src)[1] \in MovedFromStates(last.before[1])
              ELSE /\ ~has_value(last.cell)
                   /\ storage_[last.cell] = <<>>
                   /\ storage_[last.src] = <<>>

\* the move took the value out of the source
C9_Witness ==
    /\ last.op = "move"
    /\ last.outcome = "ok"
    /\ last.pre
    /\ value(last.src) = <<MovedFromValue>>
    /\ value(last.cell) = <<value_type(MaxArg)>>

\* C10 as stated: when T's copy constructor fails in a copy construction from a
\* Filled source, the new cell's flag does not say Filled.
C10_Original ==
    (last.op = "copy" /\ last.outcome = "throw")
        => ~initialized_[last.cell]

\* C10 amended: when T's copy constructor fails in a copy construction from a
\* Filled source, the failure propagates and no new cell comes into existence:
\* the member initializer had already set its flag over storage that holds no
\* T, but the object never lives, so it is never destroyed and no ~T runs on
\* it; the source is unchanged.
C10_CopyFailure ==
    /\ (last.op = "copy" /\ last.outcome = "throw")
           => /\ last.pre
              /\ life[last.cell] = "failed"
              /\ initialized_[last.cell]
              /\ storage_[last.cell] = <<>>
              /\ has_value(last.src)
              /\ storage_[last.src] = last.before
    /\ \A c \in Cells :
           life[c] = "failed" => ctorCalls[c] = 0 /\ dtorCalls[c] = 0

\* T's copy constructor has just failed in a copy construction
C10_Witness ==
    /\ last.op = "copy"
    /\ last.outcome = "throw"
    /\ life[last.cell] = "failed"
    /\ storage_[last.src] = <<value_type(MaxArg)>>

C12_DefaultEmpty ==
    last.op = "default"
        => /\ last.outcome = "ok"
           /\ ~aborted
           /\ life[last.cell] = "alive"
           /\ ~has_value(last.cell)
           /\ ~operator_bool(last.cell)
           /\ ctorCalls[last.cell] = 0
           /\ storage_[last.cell] = <<>>

\* a cell has been default-constructed beside a Filled one
C12_Witness ==
    /\ last.op = "default"
    /\ last.cell = MaxCells
    /\ \E c \in Cells : life[c] = "alive" /\ has_value(c)

\* what a call of emplace, made as `op`, does in each state it can be made in
EmplaceContract(op) ==
    last.op = op
        => /\ life[last.cell] = "alive"
           /\ (checked /\ last.pre) => last.outcome = "assert"
           /\ last.outcome = "assert"
                  => /\ checked /\ last.pre /\ aborted
                     /\ has_value(last.cell)
                     /\ storage_[last.cell] = last.before
           /\ last.outcome = "ok"
                  => /\ ~aborted
                     /\ has_value(last.cell)
                     /\ value(last.cell) = <<value_type(last.arg)>>
                     /\ ctorCalls[last.cell] >= 1
                     /\ (ctorCalls[last.cell] = 1) = ~last.pre
           /\ last.outcome = "throw"
                  => /\ ~aborted
                     /\ has_value(last.cell) = last.pre
                     /\ Len(storage_[last.cell]) = IF last.pre THEN 1 ELSE 0
                     /\ threw[last.cell] = ~last.pre

\* C13: value-assignment does what emplace does from every state: contract
\* violation on a Filled cell, the cell Filled with T(u) on success, the cell
\* left as it was and the failure propagated when T's constructor fails.
C13_AssignIsEmplace ==
    /\ EmplaceContract("assign")
    /\ EmplaceContract("emplace")

\* a value-assignment to a Filled cell took the assertion path
C13_Witness ==
    /\ last.op = "assign"
    /\ last.outcome = "assert"
    /\ storage_[last.cell] # <<value_type(last.arg)>>

\* C14: a cell on which emplace calls have failed is Empty and holds no T, so
\* a later emplace passes its precondition check; when that one succeeds the
\* cell is Filled and holds exactly one constructed T.
C14_RetryAfterFailure ==
    /\ \A c \in Cells :
           (threw[c] /\ life[c] = "alive")
               => /\ ~has_value(c)
                  /\ storage_[c] = <<>>
                  /\ ctorCalls[c] = 0
                  /\ ~EmplaceAssertFails(c)
    /\ (last.op \in {"emplace", "assign"} /\ last.retry /\ ~last.pre)
           => /\ last.outcome \in {"ok", "throw"}
              /\ last.outcome = "ok"
                     => /\ has_value(last.cell)
                        /\ storage_[last.cell] = <<value_type(last.arg)>>
                        /\ ctorCalls[last.cell] - dtorCalls[last.cell] = 1
                        /\ ~threw[last.cell]

\* an emplace succeeded on a cell on which an earlier emplace had failed
C14_Witness ==
    /\ last.op = "emplace"
    /\ last.retry
    /\ last.outcome = "ok"
    /\ checked

\* C16 as stated: over a cell's whole lifetime T's constructor is run on its
\* storage exactly once, failed and retried attempts included.
C16_Original ==
    /\ \A c \in Cells : life[c] = "dead" => ctorCalls[c] = 1
    /\ (last.op \in {"emplace", "assign"} /\ last.outcome \in {"ok", "throw"})
           => ~last.retry /\ ~last.pre

\* C16 amended: in a checked build T's constructor is only ever run on a cell
\* that is Empty and at most one construction completes in a cell's storage
\* over its lifetime (none when the cell is never Filled; emplace attempts that
\* failed may precede it); in every build a cell is Filled exactly when a
\* construction has completed in its storage.
C16_AtMostOneConstruction ==
    /\ \A c \in Cells :
           /\ checked => ctorCalls[c] <= 1
           /\ life[c] \in {"alive", "dead"}
                  => (ctorCalls[c] >= 1) = initialized_[c]
    /\ (checked /\ last.op \in {"emplace", "assign"}
            /\ last.outcome \in {"ok", "throw"})
           => ~last.pre

\* in a checked build a value-assignment succeeded after a failed attempt
C16_Witness ==
    /\ checked
    /\ last.op = "assign"
    /\ last.retry
    /\ last.outcome = "ok"
    /\ ctorCalls[last.cell] = 1

\* C17: has_value(), operator bool and the four value() accessors leave the
\* flag as it was; on a Filled cell every accessor returns a reference to the
\* stored value, the consuming ones included; operator bool and has_value()
\* return the flag.
C17_ObserversFrame ==
    /\ last.op \in {"value", "has_value", "bool"}
           => /\ life[last.cell] = "alive"
              /\ has_value(last.cell) = last.pre
    /\ (last.op = "value" /\ last.pre)
           => /\ last.outcome = "ok"
              /\ ~aborted
              /\ Len(last.ret) = 1
              /\ last.ret = storage_[last.cell]
    /\ last.op \in {"has_value", "bool"}
           => /\ last.outcome = "ok"
              /\ last.flag = last.pre
              /\ last.flag = has_value(last.cell)
              /\ operator_bool(last.cell) = has_value(last.cell)

\* the consuming accessor has been called on a Filled cell
C17_Witness ==
    /\ last.op = "value"
    /\ last.mode = "&&"
    /\ last.pre
    /\ has_value(last.cell)
    /\ last.ret = <<value_type(MaxArg)>>

\* C19: with the assertion compiled out, emplace on a Filled cell takes no
\* assertion path and runs no destructor; when its constructor succeeds the
\* cell is Filled with the new value and one more construction has completed.
\* The destruction of a cell that was ever Filled runs ~T once, however many
\* constructions completed in it, so they exceed the destructions by one for
\* every construction after the first.
C19_UncheckedRefill ==
    /\ (~checked /\ last.op = "emplace" /\ last.pre)
           => /\ last.outcome \in {"ok", "throw"}
              /\ ~aborted
              /\ has_value(last.cell)
              /\ dtorCalls[last.cell] = 0
              /\ last.outcome = "ok"
                     => /\ value(last.cell) = <<value_type(last.arg)>>
                        /\ ctorCalls[last.cell] >= 2
    /\ \A c \in Cells :
           (~checked /\ life[c] = "dead" /\ ctorCalls[c] >= 1)
               => dtorCalls[c] = 1

\* a cell that emplace had refilled has been destroyed
C19_Witness ==
    /\ ~checked
    /\ last.op = "destroy"
    /\ ctorCalls[last.cell] = MaxCtor
    /\ dtorCalls[last.cell] = 1

\* C20: when T's copy or move constructor fails in a copy or move construction
\* from a Filled cell, the new object never lives: its flag is true over
\* storage that holds no T, it is never destroyed and no ~T runs on it; the
\* source is still Filled, and its destruction runs ~T once.
C20_CtorFailureNoCell ==
    /\ (last.op \in {"copy", "move"} /\ last.outcome = "throw")
           => /\ last.pre
              /\ life[last.cell] = "failed"
              /\ storage_[last.cell] = <<>>
              /\ life[last.src] = "alive"
              /\ has_value(last.src)
              /\ Len(storage_[last.src]) = 1
    /\ \A c \in Cells :
           life[c] = "failed"
               => initialized_[c] /\ ctorCalls[c] = 0 /\ dtorCalls[c] = 0
    /\ (last.op = "destroy" /\ last.pre) => dtorCalls[last.cell] = 1

\* the source of a failed move construction has been destroyed
C20_Witness ==
    /\ last.op = "destroy"
    /\ last.pre
    /\ last.before = <<MovedFromValue>>
    /\ dtorCalls[last.cell] = 1
    /\ \E c \in Cells : life[c] = "failed"

\* I1 for one cell: the storage holds a live T exactly when the flag is set
I1(c) == (Len(storage_[c]) = 1) <=> initialized_[c]

\* C15 as stated: I1 holds in every reachable state of every cell, the states
\* between the statements of emplace and of the copy and move constructors
\* included.
C15_Original ==
    \A c \in Cells : life[c] \in {"constructing", "alive"} => I1(c)

\* C15 amended: I1 holds for every living cell on which no member function is
\* executing.  Inside emplace, from the placement new to the flag assignment,
\* the storage holds a live T (and after the first construction in the cell
\* the flag is still false); inside the copy and move constructors the flag
\* already has the source's value while the storage holds no T.
C15_I1AtRest ==
    /\ \A c \in Cells : (life[c] = "alive" /\ AtRest(c)) => I1(c)
    /\ \A t \in Threads :
           /\ pc[t].at = "flag"
                  => /\ Len(storage_[pc[t].cell]) = 1
                     /\ ctorCalls[pc[t].cell] = 1 => ~initialized_[pc[t].cell]
           /\ pc[t].at = "body"
                  => /\ life[pc[t].cell] = "constructing"
                     /\ storage_[pc[t].cell] = <<>>
                     /\ initialized_[pc[t].cell] => has_value(pc[t].src)

\* a thread inside emplace has constructed the T and not yet set the flag,
\* on a cell that is at rest again after a copy was made of it while Empty
C15_Witness ==
    \E t \in Threads, d \in Cells :
        /\ pc[t].at = "flag"
        /\ ~initialized_[pc[t].cell]
        /\ storage_[pc[t].cell] = <<value_type(MaxArg)>>
        /\ d # pc[t].cell
        /\ life[d] = "alive"
        /\ AtRest(d)
        /\ I1(d)

\* C18: without synchronisation two threads can both pass the check of emplace
\* on the same Empty cell before either sets the flag; T's constructor then
\* runs twice on the same storage and the destructor of the cell runs ~T once.
\* In a checked build that is the only way to a second construction.
C18_UnsynchronisedEmplace ==
    \A c \in Cells :
        /\ (checked /\ ctorCalls[c] >= 2) => raced[c]
        /\ dtorCalls[c] <= 1
        /\ (life[c] = "dead" /\ ctorCalls[c] >= 1) => dtorCalls[c] = 1

\* in a checked build a cell has been destroyed on which two threads each
\* constructed a T
C18_Witness ==
    \E c \in Cells :
        /\ checked
        /\ raced[c]
        /\ life[c] = "dead"
        /\ ctorCalls[c] = 2
        /\ dtorCalls[c] = 1

====
